---- MODULE Spec2Model ----
(***************************************************************************)
(* envconfig: population of a record from a lookup source.                 *)
(*                                                                         *)
(* The model follows read() of the current envconfig.go: one frame per     *)
(* call of read(), one step per field of reflect.VisibleFields, the lookup *)
(* source as a function that is asked key by key.  Keys are strings (they  *)
(* are only concatenated and compared); values are sequences of one-       *)
(* character strings, because the converter splits and parses them.        *)
(***************************************************************************)
EXTENDS Integers, Sequences, FiniteSets, TLC

VARIABLES
    holderKind, \* what Read is handed: "struct" (a pointer to a struct), "nil", or "string"
                \* (a pointer to a value that is no struct)
    pc,         \* "idle" before Read is called, "walk" inside read(), "done" after it returned
    root,       \* the fields of the destination record type (the type parameter T of Read)
    stack,      \* the call stack of read() / CollectEnv frames, innermost last
    slots,      \* the destination: path of a leaf |-> the value it holds (absent = zero value)
    alloc,      \* the paths of the pointer fields that are not nil
    env,        \* the lookup source, as far as it has been asked: key |-> result
    log,        \* history: the calls made to the lookup source, the converter, decoders, collectors
    err,        \* the error Read returns (kind "none" = nil)
    before,     \* history: the destination as it was when Read was called
    call,       \* a call of a function of the package made outside a walk: the
                \* function, its inputs and, once it has returned, its result
    other,      \* a second Read, on another destination, that runs concurrently and
                \* is not at its turn: its holderKind .. before
    solo        \* history: what a Read of this destination left when it ran alone

\* what a walk never touches
outside == <<call, other, solo>>

\* the state of one Read
walk == <<holderKind, pc, root, stack, slots, alloc, env, log, err, before>>

vars == <<walk, outside>>

----------------------------------------------------------------------------
(* Values *)

\* an empty Go map
NoEntries == [k \in {} |-> << >>]

\* the value a slot holds: s for string-like kinds, n for integers, l for the
\* elements of a slice or array, m for the entries of a map; nil tells a nil
\* slice or map from an allocated one
ZeroVal == [s |-> <<>>, n |-> 0, l |-> <<>>, m |-> NoEntries, nil |-> TRUE]

\* a value a destination may hold before Read is called
OldVal ==
    [s |-> <<"o">>, n |-> 1, l |-> << [ZeroVal EXCEPT !.s = <<"o">>, !.n = 1] >>,
     m |-> [k \in { <<"o">> } |-> [ZeroVal EXCEPT !.s = <<"o">>, !.n = 1]], nil |-> FALSE]

Val(sl, p) == IF p \in DOMAIN sl THEN sl[p] ELSE ZeroVal

Store(sl, p, v) == [q \in (DOMAIN sl) \cup {p} |-> IF q = p THEN v ELSE sl[q]]

RECURSIVE Str(_)
Str(s) == IF s = <<>> THEN "" ELSE s[1] \o Str(Tail(s))

----------------------------------------------------------------------------
(* Record types: the struct tags of a field *)

Fld(name, kind, typ) ==
    [name |-> name, kind |-> kind, typ |-> typ,
     ptr |-> FALSE, anon |-> FALSE, exported |-> TRUE,
     hasEnv |-> FALSE, env |-> "", hasPrefix |-> FALSE, pref |-> "",
     hasDefault |-> FALSE, def |-> <<>>, required |-> FALSE,
     coll |-> "none", dec |-> {}, ek |-> "string", edec |-> {}]

WithEnv(f, k) == [f EXCEPT !.hasEnv = TRUE, !.env = k]
WithPrefix(f, p) == [f EXCEPT !.hasPrefix = TRUE, !.pref = p]
WithDefault(f, d) == [f EXCEPT !.hasDefault = TRUE, !.def = d]
Required(f) == [f EXCEPT !.required = TRUE]
Embedded(f) == [f EXCEPT !.anon = TRUE]
Pointer(f) == [f EXCEPT !.ptr = TRUE]

\* the record types of envconfig_test.go
TypeNames == {"SubSubConfig", "SubConfig", "PortConfig", "Credential", "NoTag",
              "Outer", "Wrap", "Custom", "Empty", "Lists", "Inner", "DBOuter",
              "badCollectorNonStruct", "Node", "Loop"}

TypeDef ==
    [t \in TypeNames |->
        CASE t = "SubSubConfig" -> << Required(WithEnv(Fld("A", "string", ""), "FF")) >>
          [] t = "SubConfig"    -> << WithEnv(Fld("A", "string", ""), "AA"),
                                      WithPrefix(Fld("SubSub", "struct", "SubSubConfig"), "SUB2") >>
          [] t = "PortConfig"   -> << WithEnv(Fld("Port", "int", ""), "PORT") >>
          [] t = "Credential"   -> << WithEnv(Fld("User", "string", ""), "USER"),
                                      WithEnv(Fld("Pass", "string", ""), "PASS") >>
          [] t = "NoTag"        -> << Fld("String", "string", "") >>
          [] t = "Outer"        -> << Embedded(Fld("PortConfig", "struct", "PortConfig")) >>
          [] t = "Wrap"         -> << Fld("Data", "struct", "PortConfig") >>
          [] t = "Custom"       -> << WithEnv(Fld("Value", "string", ""), "VALUE") >>
          [] t = "Empty"        -> << >>
          [] t = "badCollectorNonStruct" -> << >>
          [] t = "Node"         -> << WithEnv(Fld("Val", "string", ""), "V"),
                                      WithPrefix(Pointer(Fld("Next", "struct", "Node")), "N") >>
          [] t = "Loop"         -> << Pointer(Fld("Next", "struct", "Loop")) >>
          [] t = "Lists"        -> << WithEnv(Fld("Items", "slice", ""), "VALUES") >>
          [] t = "Inner"        -> << WithEnv(Fld("Cert", "string", ""), "CERT") >>
          [] t = "DBOuter"      -> << WithEnv(Fld("Host", "string", ""), "HOST"),
                                      WithPrefix(Pointer(Fld("TLS", "struct", "Inner")), "TLS") >>]

Fields(t) == IF t = "Root" THEN root ELSE TypeDef[t]

\* reflect.VisibleFields: the fields of t in declaration order, each anonymous
\* struct field followed immediately by the fields promoted through it; rel is
\* the place FieldByName finds the field at, relative to the holder
RECURSIVE VisibleFrom(_, _, _)
VisibleFrom(t, relp, i) ==
    IF i > Len(Fields(t)) THEN << >>
    ELSE LET f == Fields(t)[i]
             here == Append(relp, f.name)
         IN  << [f |-> f, rel |-> here] >>
             \o (IF f.anon /\ f.kind = "struct" THEN VisibleFrom(f.typ, here, 1) ELSE << >>)
             \o VisibleFrom(t, relp, i + 1)

VisibleFields(t) == VisibleFrom(t, << >>, 1)

----------------------------------------------------------------------------
(* The destination types Read is called with *)

\* the shapes of the first field of the destination record
Shapes ==
    { Fld("Probe", "string", ""),
      Fld("Probe", "int", ""),
      Pointer(Fld("Probe", "string", "")),
      [Fld("probe", "string", "") EXCEPT !.exported = FALSE],
      Fld("Probe", "struct", "SubConfig"),
      Fld("Probe", "struct", "Outer"),
      Fld("Probe", "struct", "NoTag"),
      Fld("Probe", "struct", "Wrap"),
      Pointer(Fld("Probe", "struct", "PortConfig")),
      Embedded(Fld("PortConfig", "struct", "PortConfig")),
      Embedded(Fld("SubConfig", "struct", "SubConfig")),
      Embedded(Fld("Outer", "struct", "Outer")),
      [Fld("Probe", "struct", "Custom") EXCEPT !.dec = {"text"}],
      [Fld("Probe", "string", "") EXCEPT !.dec = {"json"}],
      [Fld("Probe", "slice", "Credential") EXCEPT !.coll = "ptr"],
      [Fld("Probe", "struct", "Empty") EXCEPT !.coll = "val"] }

\* the env tag: absent, empty, the skip sentinel, a name
EnvTags == { [has |-> FALSE, v |-> ""], [has |-> TRUE, v |-> ""],
             [has |-> TRUE, v |-> "-"], [has |-> TRUE, v |-> "K"] }

\* the envPrefix tag: absent, empty, a name
PrefixTags == { [has |-> FALSE, v |-> ""], [has |-> TRUE, v |-> ""], [has |-> TRUE, v |-> "P"] }

\* the envDefault tag: absent, empty, a literal
DefaultTags == { [has |-> FALSE, v |-> << >>], [has |-> TRUE, v |-> << >>],
                 [has |-> TRUE, v |-> <<"8", "0">>] }

Tagged(f, e, p, d, r) ==
    [f EXCEPT !.hasEnv = e.has, !.env = e.v, !.hasPrefix = p.has, !.pref = p.v,
              !.hasDefault = d.has, !.def = d.v, !.required = r]

TailField == WithEnv(Fld("Tail", "string", ""), "TAIL")

\* TestNestedStructPrefixHandling: a named and an embedded field of one type
NestedPrefixRoot ==
    << WithPrefix(Fld("Sub1", "struct", "PortConfig"), "APP1"),
       WithPrefix(Embedded(Fld("PortConfig", "struct", "PortConfig")), "APP2") >>

\* the tag combinations of the first field: every combination of envDefault
\* and envRequired with a named env tag, and none or both of them otherwise
TagSets ==
    { t \in EnvTags \X PrefixTags \X DefaultTags \X BOOLEAN :
        \/ t[1].v = "K"
        \/ (t[3].has <=> t[4]) /\ (t[3].has => t[3].v # << >>) }

\* the sets of decoders a type of the destinations implements
DecoderSets == { {"text", "binary"}, {"binary", "json"}, {"text", "binary", "json"} }

\* first fields that exercise the converter: types with several decoders, and
\* slices, arrays and maps of strings, of integers and of such types
ConvShapes ==
    { [Fld("Probe", "string", "") EXCEPT !.dec = d] : d \in DecoderSets }
    \cup { [Fld("Probe", k, "") EXCEPT !.ek = e] :
              k \in {"slice", "array", "map"}, e \in {"string", "int"} }
    \cup { [Fld("Probe", k, "") EXCEPT !.edec = d] :
              k \in {"slice", "array", "map"}, d \in DecoderSets \cup { {"text"} } }

\* a slice leaf inside a struct field: embedded, named, embedded with envPrefix
ListShapes ==
    { Embedded(Fld("Lists", "struct", "Lists")),
      Fld("Probe", "struct", "Lists"),
      WithPrefix(Embedded(Fld("Lists", "struct", "Lists")), "P") }

\* the record types that have a Validate() error method: the destination type,
\* as HTTPServer in the README, and a nested one
Validators == {"Root", "PortConfig"}

\* TestPointerStructDeallocation: a pointer to a struct that holds a pointer to
\* a struct
PointerRoot == << WithPrefix(Pointer(Fld("DB", "struct", "DBOuter")), "DB") >>

\* destinations of a type that refers to itself through a pointer field, with
\* an envPrefix (a linked list of nodes) and without tags
SelfRoots ==
    { << WithPrefix(Pointer(Fld("Next", "struct", "Node")), "N"), TailField >>,
      << Pointer(Fld("Next", "struct", "Loop")), TailField >> }

\* TestEnvGetterReadValidation: a collector whose CollectEnv returns an error
BadCollectorRoot ==
    << [Fld("Bad", "struct", "badCollectorNonStruct") EXCEPT !.coll = "ptr"], TailField >>

ConvRoots ==
    { << WithEnv(f, "VALUES"), TailField >> : f \in ConvShapes }
    \cup { << f, TailField >> : f \in ListShapes }

Roots ==
    { << Tagged(f, t[1], t[2], t[3], t[4]), TailField >> : f \in Shapes, t \in TagSets }
    \cup { NestedPrefixRoot, PointerRoot, BadCollectorRoot }
    \cup ConvRoots

----------------------------------------------------------------------------
(* The lookup source *)

\* the values a key may be set to
Values == { << >>, <<"8">>, <<"1", ",", "2">> }

LookupResults ==
    { [found |-> FALSE, val |-> << >>] } \cup { [found |-> TRUE, val |-> v] : v \in Values }

\* the lookup sources range over every setting of the keys of the first field
\* and of what lies beneath it; the key of the trailing field and the keys of
\* the elements of a collector are unset or set to a plain value
PlainKeys == { "TAIL", "CREDS_8_USER", "CREDS_8_PASS", "CREDS_1_USER", "CREDS_1_PASS",
               "CREDS_2_USER", "CREDS_2_PASS" }

\* the values the key of a slice, array, map or decoder field may be set to
ConvValues ==
    { << >>,
      <<"8">>,
      <<"1", ",", "2">>,
      <<",", ",", ",", ",">>,
      <<" ", "1", " ", ",", "x">>,
      <<"a", "=", "1", ",", "b", "=", "2">>,
      <<"a", "=", "1", ",", "a", "=", "2">>,
      <<"a", " ", "=", " ", "1">>,
      <<"a", "=", "1", ",", "b">>,
      <<"a", "=", "x", ",", "b">>,
      <<"a", "=", "1", "=", "2">> }

ConvKeys == { "VALUES", "P_VALUES" }

\* the id lists the key of the collector of the tests may be set to
CredsValues == { << >>, <<"8">>, <<"1", ",", "2">>, <<"2", ",", "1">> }

Range(key) ==
    IF key \in PlainKeys
    THEN { [found |-> FALSE, val |-> << >>], [found |-> TRUE, val |-> <<"8">>] }
    ELSE IF key = "CREDS"
    THEN { [found |-> FALSE, val |-> << >>] } \cup { [found |-> TRUE, val |-> v] : v \in CredsValues }
    ELSE IF key \in ConvKeys
    THEN { [found |-> FALSE, val |-> << >>] } \cup { [found |-> TRUE, val |-> v] : v \in ConvValues }
    ELSE LookupResults

\* what le(key) may return: the source is a function, so a key asked twice
\* answers the same
Answers(key) == IF key \in DOMAIN env THEN { env[key] } ELSE Range(key)

Asked(key, r) == [k \in (DOMAIN env) \cup {key} |-> IF k = key THEN r ELSE env[k]]

----------------------------------------------------------------------------
(* The value converter *)

\* strings.Split(s, sep), cur being the piece read so far
RECURSIVE SplitAt(_, _, _)
SplitAt(s, sep, cur) ==
    IF s = << >> THEN << cur >>
    ELSE IF s[1] = sep THEN << cur >> \o SplitAt(Tail(s), sep, << >>)
    ELSE SplitAt(Tail(s), sep, Append(cur, s[1]))

RECURSIVE TrimLeft(_)
TrimLeft(s) == IF s # << >> /\ s[1] = " " THEN TrimLeft(Tail(s)) ELSE s

RECURSIVE TrimRight(_)
TrimRight(s) ==
    IF s # << >> /\ s[Len(s)] = " " THEN TrimRight(SubSeq(s, 1, Len(s) - 1)) ELSE s

TrimSpace(s) == TrimRight(TrimLeft(s))

\* split: nil for the empty string, else the trimmed comma-separated pieces
split(s) ==
    IF s = << >> THEN << >>
    ELSE LET raw == SplitAt(s, ",", << >>)
         IN  [i \in 1..Len(raw) |-> TrimSpace(raw[i])]

DigitVal == [c \in {"0", "1", "2", "3", "4", "5", "6", "7", "8", "9"} |->
                CASE c = "0" -> 0 [] c = "1" -> 1 [] c = "2" -> 2 [] c = "3" -> 3
                  [] c = "4" -> 4 [] c = "5" -> 5 [] c = "6" -> 6 [] c = "7" -> 7
                  [] c = "8" -> 8 [] c = "9" -> 9]

RECURSIVE DigitsValue(_, _)
DigitsValue(s, acc) ==
    IF s = << >> THEN acc ELSE DigitsValue(Tail(s), 10 * acc + DigitVal[s[1]])

\* strconv.ParseInt(value, 10, bits): an optional sign, then one or more digits
ParseInt(s) ==
    LET signed == s # << >> /\ s[1] \in {"+", "-"}
        digits == IF signed THEN Tail(s) ELSE s
        ok == digits # << >> /\ \A i \in 1..Len(digits) : digits[i] \in DOMAIN DigitVal
    IN  [ok |-> ok,
         n |-> IF ~ok THEN 0
               ELSE IF signed /\ s[1] = "-" THEN 0 - DigitsValue(digits, 0)
               ELSE DigitsValue(digits, 0)]

Stars == <<"*", "*", "*">>

\* the decoders of the test types: UnmarshalText, UnmarshalBinary, UnmarshalJSON
Decode(fn, old, value) ==
    [old EXCEPT !.s = CASE fn = "text"   -> Stars \o value \o Stars
                        [] fn = "binary" -> Stars \o value \o <<"2">> \o Stars
                        [] fn = "json"   -> Stars \o value \o <<"3">> \o Stars]

\* the decoder setValue picks: json, else binary, else text
ValueDecoder(dec) ==
    IF "json" \in dec THEN "json"
    ELSE IF "binary" \in dec THEN "binary"
    ELSE IF "text" \in dec THEN "text"
    ELSE "none"

\* the type of a slot, as far as the converter looks at it: its kind, the
\* decoders the type implements, and the same of its elements
TypeOf(f) == [kind |-> f.kind, dec |-> f.dec, ek |-> f.ek, edec |-> f.edec]

\* inp.Type().Elem(): the type of the elements of a slice, array or map
ElemType(ty) == [kind |-> ty.ek, dec |-> ty.edec, ek |-> "string", edec |-> {}]

\* inp.Type().Key(): the maps of the model have string keys
KeyType == [kind |-> "string", dec |-> {}, ek |-> "string", edec |-> {}]

\* the length of the array type of the tests, [2]T
ArrayLen == 2

RECURSIVE Concat(_)
Concat(ss) == IF ss = << >> THEN << >> ELSE ss[1] \o Concat(Tail(ss))

\* the index of the last c in s at or after i, 0 if there is none: what a
\* converter that cuts a piece at its last "=" would use
IndexOfLast(s, c, i) ==
    LET at == { j \in i..Len(s) : s[j] = c }
    IN  IF at = {} THEN 0 ELSE CHOOSE j \in at : \A h \in at : h <= j

\* the index of the first c in s at or after i, 0 if there is none
RECURSIVE IndexOf(_, _, _)
IndexOf(s, c, i) ==
    IF i > Len(s) THEN 0 ELSE IF s[i] = c THEN i ELSE IndexOf(s, c, i + 1)

\* the first result that is an error, Len(rs) + 1 if none is
FirstBad(rs) ==
    IF \A i \in 1..Len(rs) : rs[i].ok THEN Len(rs) + 1
    ELSE CHOOSE i \in 1..Len(rs) : ~rs[i].ok /\ \A j \in 1..(i - 1) : rs[j].ok

\* mp.SetMapIndex(key, val)
MapPut(mp, k, v) == [x \in (DOMAIN mp) \cup {k} |-> IF x = k THEN v ELSE mp[x]]

\* the element of an array slot, a zero one where the slot was never written
OldElem(old, i) == IF i <= Len(old.l) THEN old.l[i] ELSE ZeroVal

RECURSIVE setValue(_, _, _)

\* the loop of the map case from piece i on: mp is the map built so far, calls
\* the decoders invoked so far
RECURSIVE MapFill(_, _, _, _, _)
MapFill(ty, arr, i, mp, calls) ==
    IF i > Len(arr) THEN [ok |-> TRUE, why |-> "", m |-> mp, calls |-> calls]
    ELSE LET eq == IndexOf(arr[i], "=", 1)
         IN  IF eq = 0 THEN [ok |-> FALSE, why |-> "invalidMap", m |-> mp, calls |-> calls]
             ELSE LET k == setValue(KeyType, ZeroVal, TrimSpace(SubSeq(arr[i], 1, eq - 1)))
                      e == setValue(ElemType(ty), ZeroVal, SubSeq(arr[i], eq + 1, Len(arr[i])))
                  IN  IF ~k.ok
                      THEN [ok |-> FALSE, why |-> k.why, m |-> mp, calls |-> calls \o k.calls]
                      ELSE IF ~e.ok
                      THEN [ok |-> FALSE, why |-> e.why, m |-> mp,
                            calls |-> (calls \o k.calls) \o e.calls]
                      ELSE MapFill(ty, arr, i + 1, MapPut(mp, k.v.s, e.v),
                                   (calls \o k.calls) \o e.calls)

\* setValue(inp, value) for a slot of type ty holding old: whether it returned
\* nil, the reason if not, the value the slot holds afterwards, the function
\* that did the conversion and the decoders that were invoked, in order
setValue(ty, old, value) ==
    IF ValueDecoder(ty.dec) # "none"
    THEN [ok |-> TRUE, why |-> "", v |-> Decode(ValueDecoder(ty.dec), old, value),
          fn |-> ValueDecoder(ty.dec), calls |-> << ValueDecoder(ty.dec) >>]
    ELSE CASE ty.kind = "string" ->
                [ok |-> TRUE, why |-> "", v |-> [old EXCEPT !.s = value],
                 fn |-> "setValue", calls |-> << >>]
           [] ty.kind = "int" ->
                IF ParseInt(value).ok
                THEN [ok |-> TRUE, why |-> "", v |-> [old EXCEPT !.n = ParseInt(value).n],
                      fn |-> "setValue", calls |-> << >>]
                ELSE [ok |-> FALSE, why |-> "parse", v |-> old,
                      fn |-> "setValue", calls |-> << >>]
           [] ty.kind = "array" ->
                LET arr == split(value)
                    rs == [i \in 1..ArrayLen |->
                             setValue(ElemType(ty), OldElem(old, i), arr[i])]
                    bad == FirstBad(rs)
                IN  IF Len(arr) < ArrayLen
                    THEN [ok |-> FALSE, why |-> "arrayLen", v |-> old,
                          fn |-> "setValue", calls |-> << >>]
                    ELSE [ok |-> bad > ArrayLen,
                          why |-> IF bad > ArrayLen THEN "" ELSE rs[bad].why,
                          v |-> IF bad = 1 THEN old
                                ELSE [old EXCEPT !.l = [i \in 1..ArrayLen |->
                                        IF i < bad THEN rs[i].v ELSE OldElem(old, i)]],
                          fn |-> "setValue",
                          calls |-> Concat([i \in 1..(IF bad > ArrayLen THEN ArrayLen ELSE bad)
                                              |-> rs[i].calls])]
           [] ty.kind = "slice" ->
                LET arr == split(value)
                    rs == [i \in 1..Len(arr) |-> setValue(ElemType(ty), ZeroVal, arr[i])]
                    bad == FirstBad(rs)
                IN  [ok |-> bad > Len(arr),
                     why |-> IF bad > Len(arr) THEN "" ELSE rs[bad].why,
                     v |-> [old EXCEPT !.l = @ \o [i \in 1..(bad - 1) |-> rs[i].v],
                                       !.nil = @ /\ bad = 1],
                     fn |-> "setValue",
                     calls |-> Concat([i \in 1..(IF bad > Len(arr) THEN Len(arr) ELSE bad)
                                         |-> rs[i].calls])]
           [] ty.kind = "map" ->
                LET arr == split(value)
                    mf == MapFill(ty, arr, 1, NoEntries, << >>)
                IN  IF arr = << >>
                    THEN [ok |-> TRUE, why |-> "", v |-> old, fn |-> "setValue", calls |-> << >>]
                    ELSE [ok |-> mf.ok, why |-> mf.why,
                          v |-> IF mf.ok THEN [old EXCEPT !.m = mf.m, !.nil = FALSE] ELSE old,
                          fn |-> "setValue", calls |-> mf.calls]
           [] OTHER -> [ok |-> FALSE, why |-> "unsupported", v |-> old,
                        fn |-> "setValue", calls |-> << >>]

----------------------------------------------------------------------------
(* getter.ReadValue *)

\* a ReadValue that takes a variable set to the empty string for an unset one
ReadValueEmptyAsUnset(isPtr, ty, old, r) ==
    IF ~isPtr
    THEN [ok |-> FALSE, why |-> "notPointer", v |-> old, fn |-> "none", calls |-> << >>,
          asked |-> FALSE]
    ELSE IF ~r.found \/ r.val = << >>
    THEN [ok |-> TRUE, why |-> "", v |-> old, fn |-> "none", calls |-> << >>, asked |-> TRUE]
    ELSE [ok |-> setValue(ty, old, r.val).ok, why |-> setValue(ty, old, r.val).why,
          v |-> setValue(ty, old, r.val).v, fn |-> setValue(ty, old, r.val).fn,
          calls |-> setValue(ty, old, r.val).calls, asked |-> TRUE]

\* g.ReadValue(key, target) for a target that is a pointer (isPtr) to a slot of
\* type ty holding old, r being what the lookup source answers for key: the
\* result of setValue, and whether the lookup source was asked
ReadValue(isPtr, ty, old, r) ==
    IF ~isPtr
    THEN [ok |-> FALSE, why |-> "notPointer", v |-> old, fn |-> "none", calls |-> << >>,
          asked |-> FALSE]
    ELSE IF ~r.found
    THEN [ok |-> TRUE, why |-> "", v |-> old, fn |-> "none", calls |-> << >>, asked |-> TRUE]
    ELSE [ok |-> setValue(ty, old, r.val).ok, why |-> setValue(ty, old, r.val).why,
          v |-> setValue(ty, old, r.val).v, fn |-> setValue(ty, old, r.val).fn,
          calls |-> setValue(ty, old, r.val).calls, asked |-> TRUE]

----------------------------------------------------------------------------
(* read(): the walk over the fields *)

\* the error: its kind, the field name and the key its message holds, the
\* error of the converter it wraps (why),
\* collector whose CollectEnv wrapped it, and (history) the field it arose at
NoErr == [kind |-> "none", field |-> "", key |-> "", why |-> "", via |-> "",
          path |-> << >>, fld |-> Fld("", "", "")]

\* an entry of the history: a call of the lookup source ("lookup"), of the
\* converter or a decoder ("conv"), or of CollectEnv ("collect"), on behalf of
\* field fld at path; coll is the collector the call was made inside of
Ev(ev, fld, path, key, found, val, fn, coll, calls) ==
    [ev |-> ev, fld |-> fld, path |-> path, key |-> key, found |-> found, val |-> val,
     fn |-> fn, coll |-> coll, calls |-> calls]

\* a frame: one call of read() (kind "read") or of CollectEnv (kind "collect");
\* idx is the field (or the id) the call is at, via the field it was entered through
Frame(kind, holder, typ, prefix, via) ==
    [kind |-> kind, holder |-> holder, typ |-> typ, prefix |-> prefix, idx |-> 1,
     ids |-> << >>, wait |-> FALSE, via |-> via]

Top == stack[Len(stack)]

\* the field the innermost read() is at, and where its value lives
AtField ==
    /\ pc = "walk"
    /\ stack # << >>
    /\ Top.kind = "read"
    /\ Top.idx <= Len(VisibleFields(Top.typ))

Cur == VisibleFields(Top.typ)[Top.idx]
CurF == Cur.f
CurPath == Top.holder \o Cur.rel

\* a loop body that recurses flat into embedded struct fields only and rejects
\* a named struct field without tags
ClassNamedRejected(f) ==
    IF ~f.exported THEN "unexported"
    ELSE IF f.coll = "val" THEN "collectorReceiver"
    ELSE IF f.coll = "ptr" THEN "collect"
    ELSE IF f.env = "-" THEN "skip"
    ELSE IF f.hasEnv /\ f.env = "" THEN "emptyEnv"
    ELSE IF f.hasEnv /\ f.hasPrefix THEN "both"
    ELSE IF f.hasPrefix /\ f.pref = "" THEN "emptyPrefix"
    ELSE IF f.kind = "struct" /\ ~f.hasEnv /\ ~f.hasPrefix /\ f.anon THEN "flat"
    ELSE IF f.kind = "struct" /\ f.hasPrefix THEN "prefixed"
    ELSE IF ~f.hasEnv THEN "noEnv"
    ELSE "leaf"

\* the branch of the loop body a field takes, in the order the code tests them
Class(f) ==
    IF ~f.exported THEN "unexported"
    ELSE IF f.coll = "val" THEN "collectorReceiver"
    ELSE IF f.coll = "ptr" THEN "collect"
    ELSE IF f.env = "-" THEN "skip"
    ELSE IF f.hasEnv /\ f.env = "" THEN "emptyEnv"
    ELSE IF f.hasEnv /\ f.hasPrefix THEN "both"
    ELSE IF f.hasPrefix /\ f.pref = "" THEN "emptyPrefix"
    ELSE IF f.kind = "struct" /\ ~f.hasEnv /\ ~f.hasPrefix THEN "flat"
    ELSE IF f.kind = "struct" /\ f.hasPrefix THEN "prefixed"
    ELSE IF ~f.hasEnv THEN "noEnv"
    ELSE "leaf"

DeclErrors == {"collectorReceiver", "emptyEnv", "both", "emptyPrefix", "noEnv"}

\* a nil pointer field is given storage before anything else is looked at
Allocated(f, p) == IF f.ptr THEN alloc \cup {p} ELSE alloc

\* a walk that gives every struct field without tags a separator of its own
FlatPrefixSeparated(prefix) == prefix \o "_"

\* a walk that starts every struct field without tags from the empty prefix
FlatPrefixReset(prefix) == ""

\* the prefix read() recurses with into a struct field without tags
FlatPrefix(prefix) == prefix

\* the prefix read() recurses with into a struct field tagged envPrefix
RealPrefix(prefix, pref) == IF prefix # "" THEN prefix \o (pref \o "_") ELSE pref \o "_"

\* the collector whose CollectEnv the walk is inside of, if any
Collecting ==
    LET cs == { i \in 1..Len(stack) : stack[i].kind = "collect" }
    IN  IF cs = {} THEN "" ELSE stack[CHOOSE i \in cs : \A j \in cs : j <= i].via.name

Advance(st) == [st EXCEPT ![Len(st)].idx = @ + 1]

\* a walk that notes the error and goes on with the next field
FailAndGoOn(kind, field, key, why) ==
    /\ err' = [kind |-> kind, field |-> field, key |-> key, why |-> why, via |-> Collecting,
               path |-> CurPath, fld |-> CurF]
    /\ pc' = pc
    /\ stack' = Advance(stack)

\* return err: every enclosing call returns it at once
Fail(kind, field, key, why) ==
    /\ err' = [kind |-> kind, field |-> field, key |-> key, why |-> why, via |-> Collecting,
               path |-> CurPath, fld |-> CurF]
    /\ pc' = "done"
    /\ stack' = << >>

\* a loop body that keeps the first decoder it finds: text, else binary, else json
ReadDecoderFirstFound(dec) ==
    IF "text" \in dec THEN "text"
    ELSE IF "binary" \in dec THEN "binary"
    ELSE IF "json" \in dec THEN "json"
    ELSE "none"

\* the decoder read() calls on a field: text, overridden by binary, overridden by json
ReadDecoder(dec) ==
    LET t == IF "text" \in dec THEN "text" ELSE "none"
        b == IF "binary" \in dec THEN "binary" ELSE t
    IN  IF "json" \in dec THEN "json" ELSE b

\* a resolver that takes a variable set to the empty string for an unset one
ResolveEmptyAsUnset(f, r) ==
    IF r.found /\ r.val # << >> THEN [act |-> "use", val |-> r.val]
    ELSE IF ~f.hasDefault /\ f.required THEN [act |-> "required", val |-> << >>]
    ELSE IF ~f.hasDefault THEN [act |-> "skip", val |-> << >>]
    ELSE [act |-> "use", val |-> f.def]

\* which string a leaf is set from, given the answer r of the lookup source
Resolve(f, r) ==
    IF r.found THEN [act |-> "use", val |-> r.val]
    ELSE IF ~f.hasDefault /\ f.required THEN [act |-> "required", val |-> << >>]
    ELSE IF ~f.hasDefault THEN [act |-> "skip", val |-> << >>]
    ELSE [act |-> "use", val |-> f.def]

\* what the leaf part of the loop body does with the string: the error it
\* returns or the value it stores, and the converter it called
Convert(f, old, value) ==
    IF ReadDecoder(f.dec) # "none"
    THEN [errk |-> "none", why |-> "", v |-> Decode(ReadDecoder(f.dec), old, value),
          fn |-> ReadDecoder(f.dec), calls |-> << ReadDecoder(f.dec) >>]
    ELSE IF f.kind = "struct"
    THEN [errk |-> "structNoDecoder", why |-> "", v |-> old, fn |-> "none", calls |-> << >>]
    ELSE LET sv == setValue(TypeOf(f), old, value)
         IN  [errk |-> IF sv.ok THEN "none" ELSE "populate", why |-> sv.why, v |-> sv.v,
              fn |-> sv.fn, calls |-> sv.calls]

----------------------------------------------------------------------------
(* Init and the actions *)

EmptyMap == [q \in {} |-> ZeroVal]

\* whether a destination of this type may hold a value in its first field
\* before the call
MayPreset(r) == r[1].kind # "struct" \/ r[1].ptr

\* what the tests hand to Read: &cfg, (*Config)(nil), and a pointer to a string
HolderKinds == {"struct", "nil", "string"}

\* no function is called outside the walk
NoCall == [fn |-> "none"]

\* no second Read
NoWalk == [pc |-> "none"]

\* the state before Read is called with a destination of one of the types rs
InitOf(rs) ==
    /\ pc = "idle"
    /\ holderKind \in HolderKinds
    /\ root \in rs
    /\ holderKind # "struct" => root = PointerRoot
    /\ \E preset \in BOOLEAN :
          /\ preset => (MayPreset(root) /\ holderKind = "struct")
          /\ slots = IF preset /\ root[1].kind # "struct"
                     THEN [q \in { << root[1].name >> } |-> OldVal] ELSE EmptyMap
          /\ alloc = IF preset /\ root[1].ptr THEN { << root[1].name >> } ELSE {}
    /\ stack = << >>
    /\ env = [k \in {} |-> [found |-> FALSE, val |-> << >>]]
    /\ log = << >>
    /\ err = NoErr
    /\ before = [slots |-> slots, alloc |-> alloc]
    /\ call = NoCall
    /\ other = NoWalk
    /\ solo = NoWalk

Init == InitOf(Roots)

\* the number of nested read() calls the stack of the goroutine has room for
MaxDepth == 6

\* a Read that takes every holder that is no struct for a nil one
ReadCheckOneError(h) == IF h = "struct" THEN "none" ELSE "nilHolder"

\* the checks of Read before it calls read(): the error it returns, "none" if
\* the holder is a non-nil pointer to a struct
ReadCheck(h) ==
    IF h = "nil" THEN "nilHolder"
    ELSE IF h # "struct" THEN "notStruct"
    ELSE "none"

\* Read(holder, le): an error for a holder that is nil or no struct, else read()
ReadCall ==
    /\ pc = "idle"
    /\ IF ReadCheck(holderKind) # "none"
       THEN /\ err' = [NoErr EXCEPT !.kind = ReadCheck(holderKind)]
            /\ pc' = "done"
            /\ UNCHANGED stack
       ELSE /\ pc' = "walk"
            /\ stack' = << Frame("read", << >>, "Root", "", Fld("", "struct", "Root")) >>
            /\ UNCHANGED err
    /\ UNCHANGED <<outside, holderKind, root, slots, alloc, env, log, before>>

\* a field that is not exported is passed over
SkipUnexported ==
    /\ AtField
    /\ Class(CurF) = "unexported"
    /\ stack' = Advance(stack)
    /\ UNCHANGED <<pc, outside, holderKind, root, slots, alloc, env, log, err, before>>

\* env:"-": continue
SkipDash ==
    /\ AtField
    /\ Class(CurF) = "skip"
    /\ alloc' = Allocated(CurF, CurPath)
    /\ stack' = Advance(stack)
    /\ UNCHANGED <<pc, outside, holderKind, root, slots, env, log, err, before>>

\* the tags of the field are rejected; every message but the one for both
\* tags names the field
DeclError ==
    /\ AtField
    /\ Class(CurF) \in DeclErrors
    /\ alloc' = Allocated(CurF, CurPath)
    /\ Fail(Class(CurF), IF Class(CurF) = "both" THEN "" ELSE CurF.name, "", "")
    /\ UNCHANGED <<outside, holderKind, root, slots, env, log, before>>

\* a struct field without tags: read() on it with the same prefix
RecurseFlat ==
    /\ AtField
    /\ Class(CurF) = "flat"
    /\ Len(stack) < MaxDepth
    /\ alloc' = Allocated(CurF, CurPath)
    /\ stack' = Append(Advance(stack),
                       Frame("read", CurPath, CurF.typ, FlatPrefix(Top.prefix), CurF))
    /\ UNCHANGED <<pc, outside, holderKind, root, slots, env, log, err, before>>

\* a struct field with envPrefix: read() on it with the extended prefix
RecursePrefix ==
    /\ AtField
    /\ Class(CurF) = "prefixed"
    /\ Len(stack) < MaxDepth
    /\ alloc' = Allocated(CurF, CurPath)
    /\ stack' = Append(Advance(stack),
                       Frame("read", CurPath, CurF.typ, RealPrefix(Top.prefix, CurF.pref), CurF))
    /\ UNCHANGED <<pc, outside, holderKind, root, slots, env, log, err, before>>

\* a field with an env tag: look the key up, resolve, convert, store
Leaf ==
    /\ AtField
    /\ Class(CurF) = "leaf"
    /\ alloc' = Allocated(CurF, CurPath)
    /\ \E r \in Answers(Top.prefix \o CurF.env) :
          LET key == Top.prefix \o CurF.env
              res == Resolve(CurF, r)
              cv == Convert(CurF, Val(slots, CurPath), res.val)
              asked == Ev("lookup", CurF, CurPath, key, r.found, r.val, "le", Collecting, << >>)
              conv == Ev("conv", CurF, CurPath, key, TRUE, res.val, cv.fn, Collecting, cv.calls)
          IN  /\ env' = Asked(key, r)
              /\ CASE res.act = "required" ->
                        /\ Fail("required", "", key, "")
                        /\ log' = Append(log, asked)
                        /\ UNCHANGED slots
                   [] res.act = "skip" ->
                        /\ stack' = Advance(stack)
                        /\ log' = Append(log, asked)
                        /\ UNCHANGED <<pc, slots, err>>
                   [] res.act = "use" /\ cv.errk # "none" ->
                        /\ Fail(cv.errk, CurF.name, "", cv.why)
                        /\ log' = IF cv.fn = "none" THEN Append(log, asked)
                                  ELSE log \o << asked, conv >>
                        /\ slots' = IF cv.v = Val(slots, CurPath) THEN slots
                                    ELSE Store(slots, CurPath, cv.v)
                   [] res.act = "use" /\ cv.errk = "none" ->
                        /\ slots' = Store(slots, CurPath, cv.v)
                        /\ stack' = Advance(stack)
                        /\ log' = log \o << asked, conv >>
                        /\ UNCHANGED <<pc, err>>
    /\ UNCHANGED <<outside, holderKind, root, before>>

\* read() has visited every field: return nil
Return ==
    /\ pc = "walk"
    /\ stack # << >>
    /\ Top.kind = "read"
    /\ Top.idx > Len(VisibleFields(Top.typ))
    /\ stack' = SubSeq(stack, 1, Len(stack) - 1)
    /\ pc' = IF Len(stack) = 1 THEN "done" ELSE "walk"
    /\ UNCHANGED <<outside, holderKind, root, slots, alloc, env, log, err, before>>

----------------------------------------------------------------------------
(* The collector of the tests: Credentials.CollectEnv *)

\* the field implements EnvCollector on a pointer receiver: CollectEnv is called
Collect ==
    /\ AtField
    /\ Class(CurF) = "collect"
    /\ alloc' = Allocated(CurF, CurPath)
    /\ stack' = Append(Advance(stack),
                       [Frame("collect", CurPath, CurF.typ, "", CurF) EXCEPT !.idx = 0])
    /\ log' = Append(log, Ev("collect", CurF, CurPath, "", FALSE, << >>, "CollectEnv", CurF.name,
                            << >>))
    /\ UNCHANGED <<pc, outside, holderKind, root, slots, env, err, before>>

InCollector == pc = "walk" /\ stack # << >> /\ Top.kind = "collect"

\* env.ReadValue("CREDS", &ids): not found leaves ids nil, found converts into it
CollectReadIds ==
    /\ InCollector
    /\ Top.typ = "Credential"
    /\ Top.idx = 0
    /\ \E r \in Answers("CREDS") :
          LET sv == ReadValue(TRUE, [kind |-> "slice", dec |-> {}, ek |-> "string", edec |-> {}],
                              ZeroVal, r)
              asked == Ev("lookup", Top.via, Top.holder, "CREDS", r.found, r.val, "ReadValue",
                          Collecting, << >>)
          IN  /\ env' = Asked("CREDS", r)
              /\ stack' = [stack EXCEPT ![Len(stack)].idx = 1,
                                         ![Len(stack)].ids =
                                             IF r.found
                                             THEN [i \in 1..Len(sv.v.l) |-> sv.v.l[i].s]
                                             ELSE << >>]
              /\ log' = IF r.found
                        THEN log \o << asked, Ev("conv", Top.via, Top.holder, "CREDS", TRUE, r.val,
                                               sv.fn, Collecting, sv.calls) >>
                        ELSE Append(log, asked)
    /\ UNCHANGED <<pc, outside, holderKind, root, slots, alloc, err, before>>

\* badCollectorNonStruct.CollectEnv: env.ReadIntoStruct("", &target) with a
\* string target returns an error, which CollectEnv returns and read() wraps
CollectFail ==
    /\ InCollector
    /\ Top.typ = "badCollectorNonStruct"
    /\ err' = [kind |-> "collect", field |-> Top.via.name, key |-> "", why |-> "notStructTarget",
               via |-> Collecting, path |-> Top.holder, fld |-> Top.via]
    /\ pc' = "done"
    /\ stack' = << >>
    /\ UNCHANGED <<outside, holderKind, root, slots, alloc, env, log, before>>

\* a collector that reads every credential into the first element
NextElemFirst(holder) == Append(holder, "#1")

\* the element the next credential is read into
NextElem(holder) == Append(holder, "#" \o ToString(Val(slots, holder).n + 1))

\* env.ReadIntoStruct("CREDS_" + id, &cred): read() with the prefix plus "_"
CollectCall ==
    /\ InCollector
    /\ Top.idx >= 1
    /\ Top.idx <= Len(Top.ids)
    /\ ~Top.wait
    /\ stack' = Append([stack EXCEPT ![Len(stack)].wait = TRUE],
                       Frame("read", NextElem(Top.holder), Top.typ,
                             ("CREDS_" \o Str(Top.ids[Top.idx])) \o "_", Top.via))
    /\ UNCHANGED <<pc, outside, holderKind, root, slots, alloc, env, log, err, before>>

\* *c = append(*c, cred)
CollectAppend ==
    /\ InCollector
    /\ Top.wait
    /\ slots' = Store(slots, Top.holder,
                      [Val(slots, Top.holder) EXCEPT !.n = @ + 1])
    /\ stack' = [stack EXCEPT ![Len(stack)].wait = FALSE, ![Len(stack)].idx = @ + 1]
    /\ UNCHANGED <<pc, outside, holderKind, root, alloc, env, log, err, before>>

\* CollectEnv returns nil
CollectReturn ==
    /\ InCollector
    /\ Top.idx >= 1
    /\ Top.idx > Len(Top.ids)
    /\ ~Top.wait
    /\ stack' = SubSeq(stack, 1, Len(stack) - 1)
    /\ UNCHANGED <<pc, outside, holderKind, root, slots, alloc, env, log, err, before>>

----------------------------------------------------------------------------

Next ==
    \/ ReadCall
    \/ SkipUnexported
    \/ Collect
    \/ CollectReadIds
    \/ CollectFail
    \/ CollectCall
    \/ CollectAppend
    \/ CollectReturn
    \/ SkipDash
    \/ DeclError
    \/ RecurseFlat
    \/ RecursePrefix
    \/ Leaf
    \/ Return

Spec == Init /\ [][Next]_vars

----------------------------------------------------------------------------
(* Read on types that refer to themselves *)

InitTermination == InitOf(Roots \cup SelfRoots)

\* read() is to call itself once more and the stack has no room left: the
\* runtime ends the program with "stack overflow", Read does not return
StackOverflow ==
    /\ AtField
    /\ Class(CurF) \in {"flat", "prefixed"}
    /\ Len(stack) >= MaxDepth
    /\ pc' = "crashed"
    /\ alloc' = Allocated(CurF, CurPath)
    /\ UNCHANGED <<outside, holderKind, root, stack, slots, env, log, err, before>>

NextTermination == Next \/ StackOverflow

\* read() runs on: a step that can be taken is taken
SpecTermination == InitTermination /\ [][NextTermination]_vars /\ WF_vars(NextTermination)

----------------------------------------------------------------------------
(* Calls of single functions of the package, outside a walk *)

\* no Read is under way
Idle ==
    /\ pc = "idle"
    /\ holderKind = "struct"
    /\ root = PointerRoot
    /\ stack = << >>
    /\ slots = EmptyMap
    /\ alloc = {}
    /\ env = [k \in {} |-> [found |-> FALSE, val |-> << >>]]
    /\ log = << >>
    /\ err = NoErr
    /\ before = [slots |-> EmptyMap, alloc |-> {}]
    /\ other = NoWalk
    /\ solo = NoWalk

\* the types of the targets handed to ReadValue
TargetTypes ==
    { [kind |-> "string", dec |-> {}, ek |-> "string", edec |-> {}],
      [kind |-> "int", dec |-> {}, ek |-> "string", edec |-> {}],
      [kind |-> "slice", dec |-> {}, ek |-> "string", edec |-> {}],
      [kind |-> "slice", dec |-> {}, ek |-> "int", edec |-> {}],
      [kind |-> "array", dec |-> {}, ek |-> "int", edec |-> {}],
      [kind |-> "map", dec |-> {}, ek |-> "int", edec |-> {}],
      [kind |-> "string", dec |-> {"text", "json"}, ek |-> "string", edec |-> {}],
      [kind |-> "struct", dec |-> {}, ek |-> "string", edec |-> {}] }

ConvResults ==
    { [found |-> FALSE, val |-> << >>] } \cup { [found |-> TRUE, val |-> v] : v \in ConvValues }

NoResult == [ok |-> TRUE, why |-> "", v |-> ZeroVal, fn |-> "none", calls |-> << >>,
             asked |-> FALSE]

InitReadValue ==
    /\ Idle
    /\ call \in [fn : {"ReadValue"}, isPtr : BOOLEAN, ty : TargetTypes, old : {ZeroVal, OldVal},
                  r : ConvResults, done : {FALSE}, out : {NoResult}]

\* env.ReadValue(key, &target) is called and returns
ReadValueCall ==
    /\ call.fn = "ReadValue"
    /\ ~call.done
    /\ call' = [call EXCEPT !.done = TRUE,
                            !.out = ReadValue(call.isPtr, call.ty, call.old, call.r)]
    /\ UNCHANGED <<walk, other, solo>>

NextReadValue == ReadValueCall

SpecReadValue == InitReadValue /\ [][NextReadValue]_vars

----------------------------------------------------------------------------
(* Assert *)

\* the number of checks handed to Assert is at most this
MaxChecks == 3

\* what a check returns: nil ("ok") or one of two errors
Outcomes == {"ok", "a", "b"}

\* the lists of checks handed to Assert
CheckLists == UNION { [1..n -> Outcomes] : n \in 0..MaxChecks }

\* an Assert that keeps only the error of the first failing check
AssertKeepFirst(errs, e) == IF e # "ok" /\ errs = << >> THEN << e >> ELSE errs

\* the body of the loop of Assert: errs after a check returned e
AssertAppend(errs, e) == IF e # "ok" THEN Append(errs, e) ELSE errs

InitAssert ==
    /\ Idle
    /\ call \in [fn : {"Assert"}, opts : CheckLists, i : {1}, ran : {<< >>}, errs : {<< >>},
                 done : {FALSE}, out : {[nil |-> TRUE, errs |-> << >>]}]

\* one round of the loop: opt() is called and its error, if any, is appended
AssertCheck ==
    /\ call.fn = "Assert"
    /\ ~call.done
    /\ call.i <= Len(call.opts)
    /\ call' = [call EXCEPT !.i = @ + 1,
                            !.ran = Append(@, call.i),
                            !.errs = AssertAppend(@, call.opts[call.i])]
    /\ UNCHANGED <<walk, other, solo>>

\* after the loop: nil if errs is empty, else ErrValidation(errs)
AssertReturn ==
    /\ call.fn = "Assert"
    /\ ~call.done
    /\ call.i > Len(call.opts)
    /\ call' = [call EXCEPT !.done = TRUE,
                            !.out = [nil |-> Len(call.errs) = 0, errs |-> call.errs]]
    /\ UNCHANGED <<walk, other, solo>>

NextAssert == AssertCheck \/ AssertReturn

SpecAssert == InitAssert /\ [][NextAssert]_vars

----------------------------------------------------------------------------
(* EnvFileLookup *)

\* the number of lines of a .env file is at most this
MaxLines == 2

\* the lines of the .env files: KEY=VALUE, with export, a comment, a line
\* without "=", a quoted value with a comment after it, a value with an inline
\* comment, another key
FileLines ==
    { <<"K", "=", "f">>,
      <<"e", "x", "p", "o", "r", "t", " ", "K", "=", "g">>,
      <<"#", "K", "=", "f">>,
      <<"K">>,
      <<"K", "=", "'", "f", " ", "#", "'", " ", "#", "c">>,
      <<" ", "K", " ", "=", " ", "f", " ", "#", "c">>,
      <<"J", "=", "f">> }

Files == UNION { [1..n -> FileLines] : n \in 0..MaxLines }

\* the key that is looked up, and what the OS environment holds for it
FileKey == <<"K">>

OSResults == { [found |-> FALSE, val |-> << >>], [found |-> TRUE, val |-> << >>],
               [found |-> TRUE, val |-> <<"o">>] }

\* strings.HasPrefix(s, p)
HasPrefix(s, p) == Len(s) >= Len(p) /\ SubSeq(s, 1, Len(p)) = p

\* strings.LastIndexByte(s, c), counted from 1: 0 if there is none
LastIndexByte(s, c) ==
    LET at == { j \in 1..Len(s) : s[j] = c }
    IN  IF at = {} THEN 0 ELSE CHOOSE j \in at : \A h \in at : h <= j

\* the value of a line after its quotes or its inline comment are removed
Unquote(value) ==
    LET q == value[1]
        idx == LastIndexByte(value, q)
        rest == TrimSpace(SubSeq(value, idx + 1, Len(value)))
        quoted == /\ value # << >>
                  /\ value[1] \in {"\"", "'"}
                  /\ idx > 1
                  /\ (rest = << >> \/ rest[1] = "#")
        hash == IndexOf(value, "#", 1)
        pre == SubSeq(value, 1, hash - 1)
    IN  IF quoted THEN SubSeq(value, 2, idx - 1)
        ELSE IF hash > 0 /\ LastIndexByte(pre, " ") >= Len(pre) THEN TrimSpace(pre)
        ELSE value

\* the body of the scanner loop: the entry a line adds to envMap, none for an
\* empty line, a comment and a line without "="
ParseLine(text) ==
    LET trimmed == TrimSpace(text)
        line == IF HasPrefix(trimmed, <<"e", "x", "p", "o", "r", "t", " ">>)
                THEN TrimSpace(SubSeq(trimmed, 8, Len(trimmed))) ELSE trimmed
        eq == IndexOf(line, "=", 1)
    IN  IF trimmed = << >> \/ trimmed[1] = "#" \/ eq = 0 THEN [has |-> FALSE]
        ELSE [has |-> TRUE, key |-> TrimSpace(SubSeq(line, 1, eq - 1)),
              value |-> Unquote(TrimSpace(SubSeq(line, eq + 1, Len(line))))]

\* a lookup function that asks the file first
FileLookupFileFirst(os, envMap, key) ==
    IF key \in DOMAIN envMap THEN [found |-> TRUE, val |-> envMap[key]]
    ELSE IF os.found THEN [found |-> TRUE, val |-> os.val]
    ELSE [found |-> FALSE, val |-> << >>]

\* the function EnvFileLookup returns, os being what os.LookupEnv answers for key
FileLookup(os, envMap, key) ==
    IF os.found THEN [found |-> TRUE, val |-> os.val]
    ELSE IF key \in DOMAIN envMap THEN [found |-> TRUE, val |-> envMap[key]]
    ELSE [found |-> FALSE, val |-> << >>]

InitEnvFile ==
    /\ Idle
    /\ call \in [fn : {"EnvFileLookup"}, file : Files, os : OSResults, n : {0},
                 envMap : {NoEntries}, done : {FALSE},
                 out : {[found |-> FALSE, val |-> << >>]}]

\* scanner.Scan(): the next line of the file is read into envMap
EnvFileScan ==
    /\ call.fn = "EnvFileLookup"
    /\ call.n < Len(call.file)
    /\ LET e == ParseLine(call.file[call.n + 1])
       IN  call' = [call EXCEPT !.n = @ + 1,
                                !.envMap = IF e.has THEN MapPut(@, e.key, e.value) ELSE @]
    /\ UNCHANGED <<walk, other, solo>>

\* the function EnvFileLookup returned is called with the key
EnvFileLookupCall ==
    /\ call.fn = "EnvFileLookup"
    /\ call.n = Len(call.file)
    /\ ~call.done
    /\ call' = [call EXCEPT !.done = TRUE, !.out = FileLookup(call.os, call.envMap, FileKey)]
    /\ UNCHANGED <<walk, other, solo>>

NextEnvFile == EnvFileScan \/ EnvFileLookupCall

SpecEnvFile == InitEnvFile /\ [][NextEnvFile]_vars

----------------------------------------------------------------------------
(* Two Reads at once, each on a destination of its own, with one lookup function *)

\* the first fields of the destinations that are read concurrently
ConcFirst ==
    { WithEnv([Fld("probe", "string", "") EXCEPT !.exported = FALSE], "K"),
      WithEnv(Fld("Probe", "string", ""), "-"),
      Fld("Probe", "int", ""),
      Required(WithEnv(Fld("Probe", "int", ""), "K")),
      Embedded(Fld("PortConfig", "struct", "PortConfig")),
      WithPrefix(Pointer(Fld("Probe", "struct", "PortConfig")), "P"),
      [Fld("Probe", "slice", "Credential") EXCEPT !.coll = "ptr"],
      [Fld("Bad", "struct", "badCollectorNonStruct") EXCEPT !.coll = "ptr"],
      WithEnv(Fld("Probe", "slice", ""), "VALUES"),
      WithEnv([Fld("Probe", "map", "") EXCEPT !.ek = "int"], "VALUES") }

ConcRoots == { r \in Roots : r[1] \in ConcFirst }

\* the state of the Read that is at its turn: its locals and its destination
Private ==
    [holderKind |-> holderKind, pc |-> pc, root |-> root, stack |-> stack, slots |-> slots,
     alloc |-> alloc, log |-> log, err |-> err, before |-> before]

\* a Read as it is before it is called, on a destination like that of this one
Fresh ==
    [Private EXCEPT !.pc = "idle", !.stack = << >>, !.slots = before.slots,
                    !.alloc = before.alloc, !.log = << >>, !.err = NoErr]

\* what a Read leaves: the destination, the error, the calls it made
Outcome(w) == [slots |-> w.slots, alloc |-> w.alloc, err |-> w.err, log |-> w.log]

\* two Reads that are handed one and the same destination
ResumedOnSharedDestination(o, cur) == [o EXCEPT !.slots = cur.slots, !.alloc = cur.alloc]

\* the state a Read goes on in when its turn comes: its own locals and its own
\* destination, whatever the Read that ran meanwhile (cur) did
Resumed(o, cur) == o

InitConcurrent ==
    /\ Init
    /\ holderKind = "struct"
    /\ root \in ConcRoots

\* the Read that ran alone has returned; two Reads of the same type and the
\* same lookup function are started on two destinations like the first
StartPair ==
    /\ solo = NoWalk
    /\ pc = "done"
    /\ solo' = Outcome(Private)
    /\ other' = Fresh
    /\ pc' = "idle"
    /\ stack' = << >>
    /\ slots' = before.slots
    /\ alloc' = before.alloc
    /\ log' = << >>
    /\ err' = NoErr
    /\ UNCHANGED <<holderKind, root, env, before, call>>

\* the scheduler takes the turn from one Read and gives it to the other
Switch ==
    /\ solo # NoWalk
    /\ LET w == Resumed(other, Private)
       IN  /\ holderKind' = w.holderKind
           /\ pc' = w.pc
           /\ root' = w.root
           /\ stack' = w.stack
           /\ slots' = w.slots
           /\ alloc' = w.alloc
           /\ log' = w.log
           /\ err' = w.err
           /\ before' = w.before
    /\ other' = Private
    /\ UNCHANGED <<env, call, solo>>

NextConcurrent == Next \/ StartPair \/ Switch

SpecConcurrent == InitConcurrent /\ [][NextConcurrent]_vars

----------------------------------------------------------------------------
(* Read called a second time on the same destination *)

\* the destination the second Read is handed: the one the first Read filled
Destination == [slots |-> slots, alloc |-> alloc]

\* the first Read has returned nil; Read is called again with the same holder
\* and the same lookup function
ReadAgain ==
    /\ solo = NoWalk
    /\ pc = "done"
    /\ err.kind = "none"
    /\ solo' = Outcome(Private)
    /\ pc' = "idle"
    /\ stack' = << >>
    /\ slots' = Destination.slots
    /\ alloc' = Destination.alloc
    /\ before' = [slots |-> slots', alloc |-> alloc']
    /\ log' = << >>
    /\ err' = NoErr
    /\ UNCHANGED <<holderKind, root, env, call, other>>

NextTwice == Next \/ ReadAgain

SpecTwice == Init /\ [][NextTwice]_vars

----------------------------------------------------------------------------
(* What the claims are stated with *)

Done == pc = "done"
Succeeded == pc = "done" /\ err.kind = "none"

\* the calls of le that read() itself made for a field (not those a collector made
\* through ReadValue), as indices of the history
LeafLookups == { i \in 1..Len(log) : log[i].ev = "lookup" /\ log[i].fn = "le" }

\* the converter or decoder call that directly follows entry i, for the same field
ConvAfter(i) ==
    /\ i + 1 <= Len(log)
    /\ log[i + 1].ev = "conv"
    /\ log[i + 1].path = log[i].path

\* entry i is the last thing that happened: the state is the one its step left
Latest(i) == i = Len(log) \/ (i + 1 = Len(log) /\ ConvAfter(i))

\* a leaf in the sense of the claims: a field of a convertible kind
IsLeafKind(f) == f.kind # "struct"

----------------------------------------------------------------------------
(* C1 *)

\* C1: when the lookup source reports the key of a leaf as found with the empty
\* string, the empty string is what is handed to the converter (not the default
\* literal), no required-field error is returned, and a plain string leaf then
\* holds the empty string, whatever envDefault / envRequired the field carries.
C1_FoundEmptyIsUsed ==
    \A i \in LeafLookups :
        (log[i].found /\ log[i].val = << >> /\ IsLeafKind(log[i].fld)) =>
            /\ ConvAfter(i)
            /\ log[i + 1].val = << >>
            /\ ~(err.kind = "required" /\ err.path = log[i].path /\ Latest(i))
            /\ (Latest(i) /\ log[i].fld.kind = "string" /\ log[i].fld.dec = {}) =>
                    /\ err.kind = "none"
                    /\ Val(slots, log[i].path).s = << >>

\* a string leaf with a non-empty default and envRequired, found empty: Read
\* succeeded and the leaf, which held a value before, is empty
C1_Witness ==
    /\ Succeeded
    /\ \E i \in LeafLookups :
          /\ log[i].found /\ log[i].val = << >>
          /\ log[i].fld.kind = "string" /\ log[i].fld.dec = {}
          /\ log[i].fld.hasDefault /\ log[i].fld.def # << >> /\ log[i].fld.required
          /\ Val(before.slots, log[i].path).s # << >>
          /\ Val(slots, log[i].path).s = << >>

----------------------------------------------------------------------------
(* C2 *)

\* the field at path p is as it was before Read was called
Untouched(p) ==
    /\ Val(slots, p) = Val(before.slots, p)
    /\ (p \in alloc) = (p \in before.alloc)

\* no visit of the field of entry i has stored into it
NeverStored(i) ==
    ~\E j \in 1..Len(log) : log[j].ev = "conv" /\ log[j].path = log[i].path

\* Read has not failed at the field of entry i
NoFailureAt(i) == ~(err.kind # "none" /\ err.path = log[i].path)

\* C2: for a leaf whose key the lookup source reports as not found: with an
\* envDefault the default literal is what is converted and no required-field
\* error is raised (envRequired or not); without a default and with envRequired
\* Read returns the required-field error for that key; with neither the
\* converter is not called, Read does not fail at this field, and the field is
\* left as it was (a nil pointer leaf stays nil).
C2_NotFoundPrecedence ==
    \A i \in LeafLookups :
        (~log[i].found /\ IsLeafKind(log[i].fld)) =>
            LET f == log[i].fld
            IN  /\ f.hasDefault =>
                      /\ ConvAfter(i)
                      /\ log[i + 1].val = f.def
                      /\ ~(err.kind = "required" /\ err.key = log[i].key)
                /\ (~f.hasDefault /\ f.required) =>
                      /\ Latest(i)
                      /\ Done
                      /\ err.kind = "required"
                      /\ err.key = log[i].key
                /\ (~f.hasDefault /\ ~f.required) =>
                      /\ ~ConvAfter(i)
                      /\ Latest(i) => NoFailureAt(i)
                      /\ (Latest(i) /\ NeverStored(i)) => Untouched(log[i].path)

\* the same with the third case restricted to leaves that are not pointers
C2_NotFoundPrecedenceNoPointers ==
    \A i \in LeafLookups :
        (~log[i].found /\ IsLeafKind(log[i].fld)) =>
            LET f == log[i].fld
            IN  /\ f.hasDefault =>
                      /\ ConvAfter(i)
                      /\ log[i + 1].val = f.def
                      /\ ~(err.kind = "required" /\ err.key = log[i].key)
                /\ (~f.hasDefault /\ f.required) =>
                      /\ Latest(i)
                      /\ Done
                      /\ err.kind = "required"
                      /\ err.key = log[i].key
                /\ (~f.hasDefault /\ ~f.required) =>
                      /\ ~ConvAfter(i)
                      /\ Latest(i) => NoFailureAt(i)
                      /\ (Latest(i) /\ NeverStored(i) /\ ~f.ptr) => Untouched(log[i].path)

----------------------------------------------------------------------------
(* C3 *)

\* the declared field called name of struct type t
FieldNamed(t, name) ==
    LET fs == Fields(t)
    IN  fs[CHOOSE i \in 1..Len(fs) : fs[i].name = name]

\* the declared field a path of field names from the destination leads to
RECURSIVE FieldAt(_, _)
FieldAt(t, path) ==
    IF Len(path) = 1 THEN FieldNamed(t, path[1])
    ELSE FieldAt(FieldNamed(t, path[1]).typ, Tail(path))

\* the fields a path passes through before it reaches its last one
Ancestors(path) == { FieldAt("Root", SubSeq(path, 1, n)) : n \in 1..(Len(path) - 1) }

\* a struct field read() walks with an extended prefix: envPrefix alone, not empty
CarriesPrefix(a) == a.kind = "struct" /\ a.hasPrefix /\ a.pref # "" /\ ~a.hasEnv /\ a.coll = "none"

\* a struct field without env and envPrefix tags
Untagged(a) == a.kind = "struct" /\ ~a.hasPrefix /\ ~a.hasEnv /\ a.coll = "none"

\* every field on the way to path is a struct field the walk descends into
Nested(path) == \A a \in Ancestors(path) : CarriesPrefix(a) \/ Untagged(a)

\* the key the declarations give the leaf at path: every envPrefix on the way
\* adds its text and one "_", a struct field without tags adds nothing
RECURSIVE KeyOf(_, _, _)
KeyOf(t, path, acc) ==
    LET f == FieldNamed(t, path[1])
    IN  IF Len(path) = 1 THEN acc \o f.env
        ELSE KeyOf(f.typ, Tail(path), IF CarriesPrefix(f) THEN (acc \o f.pref) \o "_" ELSE acc)

ExpectedKey(path) == KeyOf("Root", path, "")

\* the lookups read() made for fields of the destination itself, outside collectors
OwnLookups == { i \in LeafLookups : log[i].coll = "" }

\* C3: a leaf env:"K" inside a struct field tagged envPrefix:"P", itself walked
\* under the accumulated prefix A, is looked up at the key A + P + "_" + K at
\* every depth, and at no other key.
C3_PrefixedKeyOnly ==
    \A i \in OwnLookups :
        (Nested(log[i].path) /\ \E a \in Ancestors(log[i].path) : CarriesPrefix(a)) =>
            log[i].key = ExpectedKey(log[i].path)

\* the same for leaves that are not reached through an embedded field with envPrefix
C3_PrefixedKeyOnlyNamed ==
    \A i \in OwnLookups :
        (/\ Nested(log[i].path)
         /\ \E a \in Ancestors(log[i].path) : CarriesPrefix(a)
         /\ \A a \in Ancestors(log[i].path) : ~(CarriesPrefix(a) /\ a.anon)) =>
            log[i].key = ExpectedKey(log[i].path)

----------------------------------------------------------------------------
(* C4 *)

\* the calls of read() that were entered through an embedded struct field
\* without tags, as indices of the call stack
EmbeddedCalls ==
    { n \in 2..Len(stack) :
        stack[n].kind = "read" /\ Untagged(stack[n].via) /\ stack[n].via.anon }

\* C4: an embedded struct field without envPrefix is flattened: read() walks it
\* with the accumulated prefix A of the enclosing record, neither extended nor
\* reset, and every leaf env:"K" reached through it is looked up at A + K.
C4_EmbeddedFlattened ==
    /\ \A n \in EmbeddedCalls : stack[n].prefix = stack[n - 1].prefix
    /\ \A i \in OwnLookups :
          (/\ Nested(log[i].path)
           /\ \E a \in Ancestors(log[i].path) : Untagged(a) /\ a.anon
           /\ \A a \in Ancestors(log[i].path) : ~(CarriesPrefix(a) /\ a.anon)) =>
              log[i].key = ExpectedKey(log[i].path)

\* struct{ Probe Outer `envPrefix:"P"` } with Outer embedding PortConfig: Port
\* was looked up at P_PORT, found, and stored
C4_Witness ==
    /\ Succeeded
    /\ \E i \in OwnLookups :
          /\ log[i].path = <<"Probe", "PortConfig", "Port">>
          /\ log[i].key = "P_PORT"
          /\ log[i].found /\ log[i].val = <<"8">>
    /\ Val(slots, <<"Probe", "PortConfig", "Port">>).n = 8

----------------------------------------------------------------------------
(* C5 *)

\* the slot at path holds the conversion of the string val
Holds(f, path, val) ==
    /\ f.kind = "string" => Val(slots, path).s = val
    /\ f.kind = "int" => Val(slots, path).n = ParseInt(val).n

\* the struct field the leaf at path is declared in
Parent(path) == FieldAt("Root", SubSeq(path, 1, Len(path) - 1))

\* C5: after a successful Read every leaf env:"K" of an embedded struct field
\* tagged envPrefix:"P" holds the value the lookup source reports at P_K (with
\* the accumulated prefix in front), whatever else the source defines, the bare
\* key K included.
C5_EmbeddedPrefixValue ==
    Succeeded =>
        \A i \in OwnLookups :
            (/\ Nested(log[i].path)
             /\ Len(log[i].path) > 1
             /\ CarriesPrefix(Parent(log[i].path)) /\ Parent(log[i].path).anon
             /\ log[i].key = ExpectedKey(log[i].path)
             /\ log[i].found
             /\ log[i].fld.dec = {}) =>
                Holds(log[i].fld, log[i].path, log[i].val)

----------------------------------------------------------------------------
(* C6 *)

\* the first field of the destination is exported and tagged env:"-"
ProbeSkipped == root[1].exported /\ root[1].hasEnv /\ root[1].env = "-"

\* the entries of the history made for the first field or for anything beneath it
ProbeEntries == { i \in 1..Len(log) : log[i].path # << >> /\ log[i].path[1] = root[1].name }

\* C6: the lookup source is never queried on behalf of a field tagged env:"-",
\* neither for the field nor for anything beneath it, whatever its shape.
C6_SkippedNeverQueried ==
    ProbeSkipped => \A i \in ProbeEntries : log[i].ev # "lookup"

\* the same for fields that are neither collectors nor embedded structs
C6_SkippedNeverQueriedPlain ==
    (ProbeSkipped /\ root[1].coll = "none" /\ ~root[1].anon) =>
        \A i \in ProbeEntries : log[i].ev # "lookup"

----------------------------------------------------------------------------
(* C7 *)

\* the places of the destination that belong to the first field
ProbePlaces ==
    { q \in (DOMAIN slots) \cup (DOMAIN before.slots) \cup alloc \cup before.alloc :
        q # << >> /\ q[1] = root[1].name }

\* C7: Read leaves a field tagged env:"-" exactly as it was before the call:
\* its value and everything beneath it are unchanged, a nil pointer field is
\* still nil, and no collector, converter or decoder is called for it.
C7_SkippedUntouched ==
    ProbeSkipped =>
        /\ \A q \in ProbePlaces : Untouched(q)
        /\ \A i \in ProbeEntries : log[i].ev \notin {"conv", "collect"}

\* the same for fields that are neither pointers, collectors nor embedded structs
C7_SkippedUntouchedPlain ==
    (ProbeSkipped /\ ~root[1].ptr /\ root[1].coll = "none" /\ ~root[1].anon) =>
        /\ \A q \in ProbePlaces : Untouched(q)
        /\ \A i \in ProbeEntries : log[i].ev \notin {"conv", "collect"}

----------------------------------------------------------------------------
(* C8 *)

\* a named (not embedded) struct field with neither env nor envPrefix, exported
\* and not a collector
NamedUntagged(f) == Untagged(f) /\ ~f.anon /\ f.exported

----------------------------------------------------------------------------
(* C9 *)

C9_WitnessNoTag ==
    /\ Done
    /\ err.kind = "noEnv"
    /\ err.field = "String"
    /\ err.path = <<"Probe", "String">>
    /\ NamedUntagged(Parent(err.path))

----------------------------------------------------------------------------
(* C10 *)

\* the first field of the destination is exported and declares a name with env
\* and a non-empty envPrefix as well
ProbeBothTags ==
    /\ root[1].exported
    /\ root[1].hasEnv /\ root[1].env \notin {"-", ""}
    /\ root[1].hasPrefix /\ root[1].pref # ""

\* C10: a field that declares both env and envPrefix makes Read return an error
\* when it is visited, whatever its shape (leaf, pointer, struct, embedded
\* struct, decoder, collector) and whatever the lookup source answers.
C10_BothTagsError ==
    (Done /\ ProbeBothTags) => err.kind # "none"

\* the same for fields that are not collectors: the error is raised at the field
\* before anything is looked up
C10_BothTagsErrorNoCollector ==
    (Done /\ ProbeBothTags /\ root[1].coll = "none") =>
        /\ err.kind = "both"
        /\ err.path = << root[1].name >>
        /\ log = << >>

----------------------------------------------------------------------------
(* C11 *)

\* the first field of the destination is exported and carries an envPrefix tag
\* that is empty, and no env tag; its type does not have the defect of
\* implementing EnvCollector on a value receiver
ProbeEmptyPrefix ==
    /\ root[1].exported /\ root[1].coll # "val"
    /\ ~root[1].hasEnv /\ root[1].hasPrefix /\ root[1].pref = ""

\* nothing has been done for the first field: no call of read() or CollectEnv
\* was entered through it and the history holds no entry for it
ProbeNotEntered ==
    /\ \A n \in 1..Len(stack) : stack[n].via # root[1]
    /\ ProbeEntries = {}

\* C11: a field whose envPrefix tag is present but empty makes Read return the
\* error "tag envPrefix can't be empty" naming the field, whatever the shape of
\* the field, and read() does not descend into it.
C11_EmptyPrefixError ==
    ProbeEmptyPrefix =>
        /\ ProbeNotEntered
        /\ Done => (err.kind = "emptyPrefix" /\ err.field = root[1].name)

\* the same for fields that are not collectors
C11_EmptyPrefixErrorNoCollector ==
    (ProbeEmptyPrefix /\ root[1].coll = "none") =>
        /\ ProbeNotEntered
        /\ Done => (err.kind = "emptyPrefix" /\ err.field = root[1].name)

----------------------------------------------------------------------------
(* C12 *)

\* the first field of the destination is an exported struct field, named or
\* embedded, with an env tag alone, whose type implements no decoder
ProbeStructWithEnv ==
    /\ root[1].exported /\ root[1].kind = "struct"
    /\ root[1].coll = "none" /\ root[1].dec = {}
    /\ root[1].hasEnv /\ root[1].env \notin {"-", ""}
    /\ ~root[1].hasPrefix

\* Read returned the error "is a struct with env tag but does not implement
\* a decoder" for the first field
ProbeNoDecoderError ==
    /\ err.kind = "structNoDecoder"
    /\ err.field = root[1].name
    /\ err.path = << root[1].name >>

\* C12: a struct field that carries an env tag alone and whose type implements
\* no decoder makes Read return the struct-without-decoder error, whether or
\* not the lookup source has the key and whether or not envDefault is declared.
C12_StructWithEnvError ==
    (Done /\ ProbeStructWithEnv) => ProbeNoDecoderError

\* the same when the key is found or an envDefault is declared
C12_StructWithEnvErrorResolved ==
    (/\ Done
     /\ ProbeStructWithEnv
     /\ root[1].hasDefault \/ \E i \in OwnLookups : log[i].path = << root[1].name >> /\ log[i].found) =>
        ProbeNoDecoderError

----------------------------------------------------------------------------
(* C13 *)

\* the decoder the priority JSON, else binary, else text picks among d
Preferred(d) ==
    IF "json" \in d THEN "json" ELSE IF "binary" \in d THEN "binary" ELSE "text"

\* what the decoder of the tests named fn makes of the text
Decoded(fn, text) ==
    CASE fn = "json"   -> (Stars \o text) \o (<<"3">> \o Stars)
      [] fn = "binary" -> (Stars \o text) \o (<<"2">> \o Stars)
      [] fn = "text"   -> (Stars \o text) \o Stars

\* the conversions in the history
Conversions == { i \in 1..Len(log) : log[i].ev = "conv" }

\* the number of leading pieces of a map source that contain a "="
RECURSIVE WellFormed(_, _)
WellFormed(arr, i) ==
    IF i > Len(arr) \/ IndexOf(arr[i], "=", 1) = 0 THEN 0 ELSE 1 + WellFormed(arr, i + 1)

\* the number of element values a source gives a slice, array or map
Elements(kind, val) ==
    CASE kind = "slice" -> Len(split(val))
      [] kind = "array" -> IF Len(split(val)) < ArrayLen THEN 0 ELSE ArrayLen
      [] kind = "map"   -> WellFormed(split(val), 1)

\* C13: when the type of a slot implements more than one decoder, exactly one
\* decoder is invoked for a value, the one the priority JSON, else binary, else
\* text picks; the same holds for each element of a slice, array or map.
C13_DecoderPriority ==
    \A i \in Conversions :
        LET f == log[i].fld
        IN  /\ f.dec # {} =>
                  /\ log[i].calls = << Preferred(f.dec) >>
                  /\ log[i].fn = Preferred(f.dec)
                  /\ i = Len(log) => Val(slots, log[i].path).s = Decoded(Preferred(f.dec), log[i].val)
            /\ (f.dec = {} /\ f.edec # {} /\ f.kind \in {"slice", "array", "map"}) =>
                  /\ Len(log[i].calls) = Elements(f.kind, log[i].val)
                  /\ \A j \in 1..Len(log[i].calls) : log[i].calls[j] = Preferred(f.edec)
                  /\ (i = Len(log) /\ f.kind = "slice") =>
                        LET l == Val(slots, log[i].path).l
                            arr == split(log[i].val)
                        IN  \A j \in 1..Len(arr) :
                                l[Len(l) - Len(arr) + j].s = Decoded(Preferred(f.edec), arr[j])

\* a field whose type implements all three decoders, found set to "8": only
\* UnmarshalJSON was called and the field holds "***83***"
C13_Witness ==
    /\ Succeeded
    /\ root[1].dec = {"text", "binary", "json"}
    /\ \E i \in Conversions :
          /\ log[i].path = <<"Probe">>
          /\ log[i].val = <<"8">>
          /\ log[i].calls = <<"json">>
    /\ Val(slots, <<"Probe">>).s = <<"*", "*", "*", "8", "3", "*", "*", "*">>

\* a slice whose element type implements text and binary, found set to "1,2":
\* UnmarshalBinary was called once per element
C13_WitnessElements ==
    /\ Succeeded
    /\ root[1].kind = "slice" /\ root[1].edec = {"text", "binary"}
    /\ \E i \in Conversions :
          /\ log[i].val = <<"1", ",", "2">>
          /\ log[i].calls = <<"binary", "binary">>

----------------------------------------------------------------------------
(* C14 *)

\* the lookups made for pointer-typed leaves that were nil when Read was called
NilPointerLookups ==
    { i \in OwnLookups :
        log[i].fld.ptr /\ IsLeafKind(log[i].fld) /\ log[i].path \notin before.alloc }

\* C14: a pointer-typed leaf that is nil before Read, whose key is not found and
\* which has no envDefault, is still nil after a successful Read; it is
\* allocated and filled only when a value is found or defaulted.
C14_NilPointerStaysNil ==
    Succeeded =>
        \A i \in NilPointerLookups :
            /\ (~log[i].found /\ ~log[i].fld.hasDefault) => log[i].path \notin alloc
            /\ (log[i].found \/ log[i].fld.hasDefault) =>
                  /\ log[i].path \in alloc
                  /\ Holds(log[i].fld, log[i].path,
                           IF log[i].found THEN log[i].val ELSE log[i].fld.def)

\* the part of it about a value that is found or defaulted
C14_PointerFilledWhenResolved ==
    Succeeded =>
        \A i \in NilPointerLookups :
            (log[i].found \/ log[i].fld.hasDefault) =>
                /\ log[i].path \in alloc
                /\ Holds(log[i].fld, log[i].path,
                         IF log[i].found THEN log[i].val ELSE log[i].fld.def)

----------------------------------------------------------------------------
(* C15 *)

\* the paths of the fields of the destination and of the fields one level
\* beneath its struct fields
ShallowPaths ==
    { << root[i].name >> : i \in 1..Len(root) }
    \cup UNION { { << root[i].name, TypeDef[root[i].typ][j].name >> :
                     j \in 1..Len(TypeDef[root[i].typ]) } :
                 i \in { k \in 1..Len(root) : root[k].kind = "struct" /\ root[k].coll = "none" } }

\* the pointer-to-struct fields that carry an envPrefix, were nil when Read was
\* called and lie on a path the walk descends
NilRecordPointers ==
    { p \in ShallowPaths :
        /\ FieldAt("Root", p).ptr
        /\ CarriesPrefix(FieldAt("Root", p))
        /\ Nested(p)
        /\ p \notin before.alloc }

\* path q lies beneath path p
Under(p, q) == Len(q) > Len(p) /\ SubSeq(q, 1, Len(p)) = p

\* a key beneath p was found or defaulted
ResolvedUnder(p) ==
    \E i \in OwnLookups :
        Under(p, log[i].path) /\ (log[i].found \/ log[i].fld.hasDefault)

\* C15: after a successful Read a pointer-to-struct field with envPrefix that
\* was nil before is nil if no key beneath it, at any depth, was found or
\* defaulted, and is allocated if one was; the same for such fields inside it.
C15_NilRecordPointer ==
    Succeeded =>
        \A p \in NilRecordPointers : (p \in alloc) <=> ResolvedUnder(p)

\* the part of it about a key that is found or defaulted
C15_RecordPointerAllocated ==
    Succeeded =>
        \A p \in NilRecordPointers : ResolvedUnder(p) => p \in alloc

----------------------------------------------------------------------------
(* C16 *)

\* the positions of the commas of a source, and the position of the k-th one
\* (0 before the first, one past the end after the last)
Commas(v) == { i \in 1..Len(v) : v[i] = "," }

NthComma(v, k) ==
    IF k = 0 THEN 0
    ELSE IF k > Cardinality(Commas(v)) THEN Len(v) + 1
    ELSE CHOOSE c \in Commas(v) : Cardinality({ d \in Commas(v) : d <= c }) = k

\* the k-th comma-separated piece of a source, without its surrounding spaces
Piece(v, k) == TrimSpace(SubSeq(v, NthComma(v, k - 1) + 1, NthComma(v, k) - 1))

\* the lookups that found a value for a slice leaf that was nil before Read and
\* whose type brings no decoder of its own
SliceLookups ==
    { i \in OwnLookups :
        /\ log[i].fld.kind = "slice" /\ log[i].fld.dec = {}
        /\ log[i].found
        /\ Val(before.slots, log[i].path).nil }

\* what the claim says the slice at the path of lookup i holds in the end
SliceAsClaimed(i) ==
    LET v == log[i].val
        sl == Val(slots, log[i].path)
        n == Cardinality(Commas(v))
    IN  IF v = << >> THEN sl.nil /\ sl.l = << >>
        ELSE /\ Len(sl.l) = n + 1
             /\ \A k \in 1..(n + 1) :
                    k <= Len(sl.l) =>
                        sl.l[k] = setValue(ElemType(TypeOf(log[i].fld)), ZeroVal, Piece(v, k)).v

\* C16: after a successful Read a slice leaf whose key was found holds exactly
\* n+1 elements for a non-empty source with n commas, the k-th being the
\* conversion of the k-th trimmed piece, and is nil for an empty source;
\* wherever the field sits, also inside embedded structs.
C16_SliceElements ==
    Succeeded => \A i \in SliceLookups : SliceAsClaimed(i)

\* the same for the slice leaves that do not sit inside an embedded struct
C16_SliceElementsNotEmbedded ==
    Succeeded =>
        \A i \in SliceLookups :
            (\A a \in Ancestors(log[i].path) : ~a.anon) => SliceAsClaimed(i)

----------------------------------------------------------------------------
(* C17 *)

\* whether a piece holds a "=", and the parts before and after its first one
HasEquals(p) == \E j \in 1..Len(p) : p[j] = "="

FirstEquals(p) == CHOOSE j \in 1..Len(p) : p[j] = "=" /\ \A h \in 1..(j - 1) : p[h] # "="

KeyPart(p) == TrimSpace(SubSeq(p, 1, FirstEquals(p) - 1))

ValuePart(p) == SubSeq(p, FirstEquals(p) + 1, Len(p))

\* the lookups that found a value for a map leaf whose type brings no decoder
MapLookups ==
    { i \in OwnLookups : log[i].fld.kind = "map" /\ log[i].fld.dec = {} /\ log[i].found }

\* the pieces of the source of lookup i, by number
PieceNumbers(i) == 1..(Cardinality(Commas(log[i].val)) + 1)

\* the conversion of the value part of the k-th piece of lookup i
ValueConv(i, k) ==
    setValue(ElemType(TypeOf(log[i].fld)), ZeroVal, ValuePart(Piece(log[i].val, k)))

\* piece k of lookup i has a "=" and its value part converts (a key is a string
\* and always converts)
PieceConverts(i, k) == HasEquals(Piece(log[i].val, k)) /\ ValueConv(i, k).ok

\* the conversion of lookup i failed with "invalid map value"
InvalidMapValue(i) ==
    err.kind = "populate" /\ err.path = log[i].path /\ err.why = "invalidMap"

\* an empty source leaves the map as it was; a source whose pieces all convert
\* gives one entry per distinct key, holding the value of the last piece with
\* that key
MapEntries(i) ==
    LET v == log[i].val
        mp == Val(slots, log[i].path)
    IN  /\ v = << >> => (NoFailureAt(i) /\ mp = Val(before.slots, log[i].path))
        /\ (v # << >> /\ \A k \in PieceNumbers(i) : PieceConverts(i, k)) =>
              /\ NoFailureAt(i)
              /\ ~mp.nil
              /\ DOMAIN mp.m = { KeyPart(Piece(v, k)) : k \in PieceNumbers(i) }
              /\ \A k \in PieceNumbers(i) :
                    (\A h \in PieceNumbers(i) :
                        h > k => KeyPart(Piece(v, h)) # KeyPart(Piece(v, k)))
                    => mp.m[KeyPart(Piece(v, k))] = ValueConv(i, k).v

\* C17 as stated: a found map source gives one entry per piece with a distinct
\* key, cut at the first "=" of the piece; an empty source leaves the map unset;
\* if any piece holds no "=" the conversion fails with "invalid map value".
C17_MapConversion ==
    \A i \in MapLookups :
        /\ MapEntries(i)
        /\ (log[i].val # << >> /\ \E k \in PieceNumbers(i) : ~HasEquals(Piece(log[i].val, k)))
              => InvalidMapValue(i)

\* C17, amended: the same, but a piece without "=" makes the conversion fail
\* with "invalid map value" when every piece before it converts; when an
\* earlier piece does not convert the conversion fails with that error.
C17_MapConversionFirstFailure ==
    \A i \in MapLookups :
        /\ MapEntries(i)
        /\ \A k \in PieceNumbers(i) :
              (/\ log[i].val # << >>
               /\ ~HasEquals(Piece(log[i].val, k))
               /\ \A h \in 1..(k - 1) : PieceConverts(i, h))
              => InvalidMapValue(i)
        /\ (log[i].val # << >> /\ \E k \in PieceNumbers(i) : ~PieceConverts(i, k))
              => (err.kind = "populate" /\ err.path = log[i].path)

\* a map set from "a=1=2": one entry, "a", holding "1=2"
C17_Witness ==
    /\ Succeeded
    /\ \E i \in MapLookups :
          /\ log[i].val = <<"a", "=", "1", "=", "2">>
          /\ DOMAIN Val(slots, log[i].path).m = { <<"a">> }
          /\ Val(slots, log[i].path).m[<<"a">>].s = <<"1", "=", "2">>

\* a map set from "a=1,b": "invalid map value"
C17_WitnessInvalid ==
    \E i \in MapLookups : log[i].val = <<"a", "=", "1", ",", "b">> /\ InvalidMapValue(i)

----------------------------------------------------------------------------
(* C18 *)

\* C18: Read with a nil holder returns the "nil holder" error, without a call
\* of the lookup source, and a holder that points to something that is no
\* struct gets another error, "only accepts a struct".
C18_NilHolder ==
    /\ holderKind = "nil" => (log = << >> /\ DOMAIN env = {} /\ pc # "walk")
    /\ (Done /\ holderKind = "nil") => err.kind = "nilHolder"
    /\ (Done /\ holderKind = "string") => (err.kind = "notStruct" /\ log = << >>)

\* Read has returned for a nil holder
C18_Witness == Done /\ holderKind = "nil" /\ err.kind = "nilHolder" /\ log = << >>

----------------------------------------------------------------------------
(* C19 *)

\* C19: the error Read returns when the value of a leaf does not convert holds
\* the key the value was looked up under, the accumulated prefix plus the key
\* of the leaf.
C19_ConversionErrorNamesKey ==
    err.kind = "populate" =>
        \E i \in LeafLookups :
            /\ log[i].path = err.path
            /\ log[i].key # ""
            /\ err.key = log[i].key

\* what the error does hold: the name of the field
C19_ConversionErrorNamesField ==
    err.kind = "populate" => (err.field = err.fld.name /\ err.key = "")

----------------------------------------------------------------------------
(* C20 *)

\* C20: the step at which a field yields an error ends Read with that error
\* and changes no field other than the one the error arose at; from then on
\* the error stays, the lookup source is not asked again and nothing is
\* mutated.
C20_FailFast ==
    [][ /\ (err.kind = "none" /\ err'.kind # "none") =>
              /\ pc' = "done"
              /\ stack' = << >>
              /\ \A p \in (DOMAIN slots') \ { err'.path } :
                    p \in DOMAIN slots /\ slots'[p] = slots[p]
              /\ alloc' \subseteq (alloc \cup { err'.path })
              /\ \A i \in (Len(log) + 1)..Len(log') : log'[i].path = err'.path
        /\ err.kind # "none" => UNCHANGED <<err, log, env, slots, alloc, pc>>
      ]_vars

\* Read has returned the error of the first field and the trailing field was
\* never looked up
C20_Witness ==
    /\ Done
    /\ err.kind \in {"required", "populate"}
    /\ err.path = << root[1].name >>
    /\ Len(root) = 2
    /\ root[2].hasEnv
    /\ \A i \in 1..Len(log) : log[i].key # root[2].env

\* the same for an error that arose inside a collector
C20_WitnessCollector ==
    /\ Done
    /\ err.kind # "none"
    /\ err.via # ""
    /\ Len(root) = 2
    /\ \A i \in 1..Len(log) : log[i].key # root[2].env

----------------------------------------------------------------------------
(* C21 *)

\* the calls of CollectEnv in the history
CollectCalls == { i \in 1..Len(log) : log[i].ev = "collect" }

\* a collector field declared as the documentation asks: envPrefix alone, not empty
CollectorDeclared(f) == f.hasPrefix /\ f.pref # "" /\ ~f.hasEnv

\* C21: a field whose type implements EnvCollector and that carries an env tag,
\* or no envPrefix tag, or an empty one, gets a declaration error and its
\* CollectEnv is not called.
C21_CollectorNeedsPrefix ==
    /\ \A i \in CollectCalls : CollectorDeclared(log[i].fld)
    /\ (Done /\ holderKind = "struct" /\ root[1].coll = "ptr" /\ ~CollectorDeclared(root[1]))
          => (err.kind \in DeclErrors /\ err.path = << root[1].name >>)

\* what read() does: it calls CollectEnv of every exported pointer-receiver
\* collector field, whatever its tags are
C21_CollectorAlwaysInvoked ==
    (Done /\ holderKind = "struct" /\ root[1].coll = "ptr" /\ root[1].exported)
        => \E i \in CollectCalls : log[i].path = << root[1].name >>

----------------------------------------------------------------------------
(* C22 *)

\* a leaf field whose type is that of the target of the call
LeafOf(ty) == [Fld("Target", ty.kind, "") EXCEPT !.dec = ty.dec, !.ek = ty.ek, !.edec = ty.edec,
                                                 !.hasEnv = TRUE, !.env = "K"]

\* C22: ReadValue(key, target) with a pointer target: when the key is not found
\* it returns no error and the target is as it was; when it is found the target
\* holds what the converter of the leaf fields makes of the value, and the
\* error of the conversion is returned.
C22_ReadValue ==
    (call.fn = "ReadValue" /\ call.done /\ call.isPtr) =>
        LET cv == Convert(LeafOf(call.ty), call.old, call.r.val)
        IN  /\ ~call.r.found =>
                  (call.out.ok /\ call.out.v = call.old /\ call.out.calls = << >>)
            /\ call.r.found =>
                  /\ call.out.v = cv.v
                  /\ call.out.ok <=> cv.errk = "none"
                  /\ call.out.calls = cv.calls
                  /\ ~call.out.ok => call.out.why # ""
                  /\ (~call.out.ok /\ call.ty.kind # "struct") => call.out.why = cv.why

\* ReadValue has returned nil for a key that was not found and the target
\* still holds what it held
C22_Witness ==
    /\ call.fn = "ReadValue" /\ call.done /\ call.isPtr
    /\ ~call.r.found
    /\ call.old = OldVal
    /\ call.out.ok /\ call.out.v = OldVal

\* ReadValue has returned the error of a conversion
C22_WitnessError ==
    /\ call.fn = "ReadValue" /\ call.done /\ call.isPtr
    /\ call.r.found /\ call.ty.kind = "int"
    /\ ~call.out.ok /\ call.out.why = "parse"

----------------------------------------------------------------------------
(* C23 *)

\* the ids a source lists: its comma-separated pieces, none for the empty source
ListedIds(r) ==
    IF ~r.found \/ r.val = << >> THEN << >>
    ELSE [k \in 1..(Cardinality(Commas(r.val)) + 1) |-> Piece(r.val, k)]

\* the key of leaf K of the element of id, and the lookups made inside collectors
CredKey(id, k) == (("CREDS_" \o Str(id)) \o "_") \o k

CollectorLookups == { i \in 1..Len(log) : log[i].ev = "lookup" /\ log[i].coll # "" }

\* the collector of the tests has run to its end on the first field
Collected ==
    /\ Succeeded
    /\ root[1].coll = "ptr" /\ root[1].typ = "Credential" /\ root[1].exported
    /\ "CREDS" \in DOMAIN env

\* C23: the collector of the tests appends one element per id listed under its
\* key, in the listed order, the element of id filled from CREDS_id_USER and
\* CREDS_id_PASS, and asks for the keys of no other id.
C23_CollectorElements ==
    Collected =>
        LET ids == ListedIds(env["CREDS"])
            p == << root[1].name >>
            n0 == Val(before.slots, p).n
            elem(i) == Append(p, "#" \o ToString(n0 + i))
            leaf(i, name, k) ==
                /\ CredKey(ids[i], k) \in DOMAIN env
                /\ Val(slots, Append(elem(i), name)).s =
                       IF env[CredKey(ids[i], k)].found
                       THEN env[CredKey(ids[i], k)].val ELSE << >>
        IN  /\ Val(slots, p).n = n0 + Len(ids)
            /\ \A i \in 1..Len(ids) : leaf(i, "User", "USER") /\ leaf(i, "Pass", "PASS")
            /\ \A q \in DOMAIN slots :
                  (Len(q) = 3 /\ q[1] = root[1].name) =>
                      \E i \in 1..Len(ids) : q[2] = "#" \o ToString(n0 + i)
            /\ \A j \in CollectorLookups :
                  \/ log[j].key = "CREDS"
                  \/ \E i \in 1..Len(ids) :
                        log[j].key \in { CredKey(ids[i], "USER"), CredKey(ids[i], "PASS") }

\* the list "2,1": two elements, the first from CREDS_2_USER, which is set,
\* the second from CREDS_1_USER, which is not
C23_Witness ==
    /\ Collected
    /\ env["CREDS"].val = <<"2", ",", "1">>
    /\ Val(before.slots, << root[1].name >>).n = 0
    /\ Val(slots, << root[1].name >>).n = 2
    /\ Val(slots, << root[1].name, "#1", "User" >>).s = <<"8">>
    /\ Val(slots, << root[1].name, "#2", "User" >>).s = << >>
    /\ "CREDS_8_USER" \notin DOMAIN env

----------------------------------------------------------------------------
(* C24 *)

\* the calls of the Validate method of the record at path in the history
ValidateCalls(path) == { i \in 1..Len(log) : log[i].ev = "validate" /\ log[i].path = path }

\* the read() calls that returned: the destination and the struct fields the
\* walk descended into
RecordsRead ==
    { << >> } \cup { p \in ShallowPaths : \E i \in OwnLookups : Under(p, log[i].path) }

\* C24: after a successful Read the Validate method of the destination type has
\* been called exactly once, and that of every nested record that was walked
\* exactly once, after the fields of the record were set.
C24_ValidateOnce ==
    (Succeeded /\ holderKind = "struct") =>
        \A p \in RecordsRead :
            (p = << >> \/ FieldAt("Root", p).typ \in Validators)
                => Cardinality(ValidateCalls(p)) = 1

\* what read() does: it never calls a Validate method
C24_ValidateNeverCalled == \A i \in 1..Len(log) : log[i].ev # "validate"

----------------------------------------------------------------------------
(* C25 *)

\* the errors of the failing checks of a list, in the order of the checks
RECURSIVE FailingChecks(_)
FailingChecks(opts) ==
    IF opts = << >> THEN << >>
    ELSE IF opts[1] = "ok" THEN FailingChecks(Tail(opts))
    ELSE << opts[1] >> \o FailingChecks(Tail(opts))

\* C25: Assert runs every check once, in order, also after a failure; it
\* returns nil exactly if no check fails, and otherwise one ErrValidation that
\* holds the errors of the failing checks in the order of the checks.
C25_AssertCollectsAll ==
    (call.fn = "Assert" /\ call.done) =>
        /\ call.ran = [k \in 1..Len(call.opts) |-> k]
        /\ call.out.nil <=> (\A k \in 1..Len(call.opts) : call.opts[k] = "ok")
        /\ call.out.errs = FailingChecks(call.opts)
        /\ Len(call.out.errs) = Cardinality({ k \in 1..Len(call.opts) : call.opts[k] # "ok" })

\* Assert has returned both errors of three checks of which the first and the
\* last fail
C25_Witness ==
    /\ call.fn = "Assert" /\ call.done
    /\ call.opts = <<"a", "ok", "b">>
    /\ ~call.out.nil
    /\ call.out.errs = <<"a", "b">>

\* Assert has returned nil for no checks at all
C25_WitnessNoChecks ==
    call.fn = "Assert" /\ call.done /\ call.opts = << >> /\ call.out.nil

----------------------------------------------------------------------------
(* C26 *)

\* the lookup function of EnvFileLookup has been called for the key
FileLooked == call.fn = "EnvFileLookup" /\ call.done

\* the file defines the key: one of its lines is an entry for it
FileDefines == \E k \in 1..Len(call.file) :
                   ParseLine(call.file[k]).has /\ ParseLine(call.file[k]).key = FileKey

C26_WitnessFile ==
    /\ FileLooked
    /\ call.file = << <<"K", "=", "f">>, <<"e", "x", "p", "o", "r", "t", " ", "K", "=", "g">> >>
    /\ ~call.os.found
    /\ call.out = [found |-> TRUE, val |-> <<"g">>]

\* a quoted value keeps its "#", an inline comment is cut off
C26_WitnessQuoted ==
    /\ FileLooked
    /\ ~call.os.found
    /\ call.file = << <<" ", "K", " ", "=", " ", "f", " ", "#", "c">>,
                      <<"K", "=", "'", "f", " ", "#", "'", " ", "#", "c">> >>
    /\ call.out = [found |-> TRUE, val |-> <<"f", " ", "#">>]

----------------------------------------------------------------------------
(* C27 *)

C27_NoSharedWrites ==
    [][ /\ (solo # NoWalk /\ other' # other) => (other' = Private /\ Private' = other)
        /\ \A k \in DOMAIN env : k \in DOMAIN env' /\ env'[k] = env[k]
      ]_vars

C27_WitnessInterleaved ==
    /\ solo # NoWalk
    /\ pc = "walk" /\ other.pc = "walk"
    /\ log # << >> /\ other.log # << >>

----------------------------------------------------------------------------
(* C28 *)

\* C28: Read ends, with nil or with an error, for every type of destination,
\* also for one that refers to itself through a pointer to struct field.
C28_Terminates == <>Done

\* Read ends for the types that do not refer to themselves
C28_TerminatesWithoutCycle == (root \notin SelfRoots) => <>Done

\* the walk on a self-referential type ends in the runtime's stack overflow
C28_Overflow == pc = "crashed" /\ root \in SelfRoots

----------------------------------------------------------------------------
(* C29 *)

\* the conversions and decodings read() ran for a field, as indices of the history
OwnConversions == { i \in 1..Len(log) : log[i].ev = "conv" /\ log[i].coll = "" }

\* the field at path was looked up at most once and converted at most once
ResolvedOnce(path) ==
    /\ Cardinality({ i \in OwnLookups : log[i].path = path }) <= 1
    /\ Cardinality({ i \in OwnConversions : log[i].path = path }) <= 1

\* C29: within one Read every leaf field is resolved at most once, one lookup
\* and one store at most, the leaves of embedded structs included.
C29_ResolvedOnce ==
    \A i \in OwnLookups : ResolvedOnce(log[i].path)

\* the same for the leaves that do not sit inside an embedded struct
C29_ResolvedOnceNotEmbedded ==
    \A i \in OwnLookups :
        (\A a \in Ancestors(log[i].path) : ~a.anon) => ResolvedOnce(log[i].path)

----------------------------------------------------------------------------
(* C30 *)

\* the second Read on the destination has returned nil
SucceededAgain == Succeeded /\ solo # NoWalk

\* the field at path holds after the second Read what it held after the first
SameAsFirst(path) ==
    /\ (path \in DOMAIN slots) = (path \in DOMAIN solo.slots)
    /\ path \in DOMAIN slots => slots[path] = solo.slots[path]

\* C30: a second successful Read on the same destination with the same lookup
\* source leaves the destination as the first Read left it, for every shape of
\* field, slices and maps included.
C30_Idempotent ==
    SucceededAgain => slots = solo.slots /\ alloc = solo.alloc

\* the same for the fields that are neither slices nor filled by a collector
C30_IdempotentButSlices ==
    SucceededAgain =>
        /\ alloc = solo.alloc
        /\ \A i \in OwnLookups :
              TypeOf(log[i].fld).kind # "slice" => SameAsFirst(log[i].path)

\* a map field found set to "a=1" twice holds one entry after the second Read
C30_WitnessMap ==
    /\ SucceededAgain
    /\ \E i \in OwnLookups :
          /\ TypeOf(log[i].fld).kind = "map"
          /\ log[i].found /\ log[i].val # << >>
          /\ SameAsFirst(log[i].path)

====
